---- MODULE Spec2Model ----
(***************************************************************************)
(* A model of sentry_jira/jira.py: the JIRA REST client (JIRAClient), its  *)
(* response wrapper (JIRAResponse), its error classes (JIRAError,          *)
(* JIRAUnauthorized) and the read cache in front of make_request.          *)
(*                                                                         *)
(* Texts are sequences of one-character strings, so that slices such as    *)
(* text[:5] are computed as the code computes them.                        *)
(***************************************************************************)
EXTENDS Integers, Sequences, FiniteSets, TLC

VARIABLES
    session,     \* per client: id of self._session, NoSession when the attribute is absent
    authOK,      \* per client: the authentication POST of self._session was answered 2xx
    authPosts,   \* per client: number of authentication POSTs sent so far
    nextSid,     \* identity of the next object build_session() returns
    cache,       \* the external cache: key -> entry (value with expiry)
    now,         \* the clock, in seconds
    last,        \* the last operation: calls sent, events received, outcome
    pc,          \* per thread: position inside get_session (concurrent use)
    tres         \* per thread: what get_session returned (concurrent use)

vars == <<session, authOK, authPosts, nextSid, cache, now, last, pc, tres>>

-----------------------------------------------------------------------------
(* Bounds of the model *)

MaxTime == 60
MaxProjects == 2

-----------------------------------------------------------------------------
(* Python values *)

\* None in a numeric slot (status_code, timeout)
None == -1

\* hasattr(self, '_session') is false
NoSession == 0

Min(a, b) == IF a < b THEN a ELSE b

\* text[:n]
Slice(text, n) == SubSeq(text, 1, Min(n, Len(text)))

\* JIRAError.__init__ keeps response_text[:128] as the exception message
MSG_LEN == 128

HTTP_TIMEOUT == 5

\* a time-to-live of five minutes
CACHE_TTL_300 == 5 * 60

\* cache.set(key, cached_result, 60)
CACHE_TTL == 60

-----------------------------------------------------------------------------
(* Texts *)

T_Empty == << >>
T_InternalError == <<"I","n","t","e","r","n","a","l"," ","E","r","r","o","r">>
T_InternalErrorLower == <<"I","n","t","e","r","n","a","l"," ","e","r","r","o","r">>
T_MoreThanOne == <<"M","o","r","e"," ","t","h","a","n"," ","o","n","e"," ",
                   "p","r","o","j","e","c","t"," ","f","o","u","n","d",".">>
T_XmlMark == <<"<","?","x","m","l">>
T_Refused == <<"r","e","f","u","s","e","d">>
T_Boom == <<"b","o","o","m">>

\* bodies the remote service may send
B_Garbage == <<"o","o","p","s">>
B_Xml == <<"<","?","x","m","l"," ","?",">">>
B_XmlShort == <<"<","?","x","m">>
B_XmlSpace == <<" ","<","?","x","m","l">>
B_EmptyObj == <<"{","}">>
B_Null == <<"n","u","l","l">>
B_Ok == <<"{","\"","o","k","\"",":","1","}">>
B_ProjHead == <<"{","\"","p","r","o","j","e","c","t","s","\"",":","[">>
B_ProjTail == <<"]","}">>

Digit(n) == CASE n = 1 -> "1" [] n = 2 -> "2" [] n = 3 -> "3" [] OTHER -> "0"

RECURSIVE Items(_)
\* "1,2,...,n": the project metadata objects, each written as one digit
Items(n) == IF n = 0 THEN << >>
            ELSE IF n = 1 THEN <<Digit(1)>>
            ELSE Items(n - 1) \o <<",", Digit(n)>>

\* {"projects":[1,...,n]}
B_Projects(n) == B_ProjHead \o Items(n) \o B_ProjTail

ProjectCounts == 0..MaxProjects

-----------------------------------------------------------------------------
(* Parsed bodies *)

JsonNone == [kind |-> "None", keys |-> {}, projects |-> << >>]
XmlNone == [kind |-> "None", src |-> << >>]

\* BeautifulStoneSoup(text): a tree built from the text
BeautifulStoneSoup(text) == [kind |-> "soup", src |-> text]

\* the middle of {"projects":[ ... ]}, when the text has that shape
ProjectsMiddle(text) ==
    SubSeq(text, Len(B_ProjHead) + 1, Len(text) - Len(B_ProjTail))

IsProjectsDoc(text) ==
    /\ Len(text) >= Len(B_ProjHead) + Len(B_ProjTail)
    /\ SubSeq(text, 1, Len(B_ProjHead)) = B_ProjHead
    /\ SubSeq(text, Len(text) - Len(B_ProjTail) + 1, Len(text)) = B_ProjTail
    /\ \E n \in 0..Len(text) : ProjectsMiddle(text) = Items(n)

ProjectsOf(text) ==
    LET n == CHOOSE k \in 0..Len(text) : ProjectsMiddle(text) = Items(k)
    IN [i \in 1..n |-> i]

\* json.loads raises JSONDecodeError / ValueError on these texts
JsonFails(text) ==
    ~ \/ text = B_EmptyObj
      \/ text = B_Null
      \/ text = B_Ok
      \/ IsProjectsDoc(text)

\* json.loads(text, object_pairs_hook=SortedDict) on a text it accepts
JsonLoads(text) ==
    IF text = B_Null THEN JsonNone
    ELSE IF text = B_EmptyObj THEN [kind |-> "dict", keys |-> {}, projects |-> << >>]
    ELSE IF text = B_Ok THEN [kind |-> "dict", keys |-> {"ok"}, projects |-> << >>]
    ELSE [kind |-> "dict", keys |-> {"projects"}, projects |-> ProjectsOf(text)]

-----------------------------------------------------------------------------
(* Values: responses, errors, sessions *)

Value(cls, text, status_code, json, xml, message, val) ==
    [cls |-> cls, text |-> text, status_code |-> status_code, json |-> json,
     xml |-> xml, message |-> message, val |-> val]

\* the class attribute status_code
ClassStatus(cls) == IF cls = "JIRAUnauthorized" THEN 401 ELSE None

\* JIRAError.__init__ comparing the first four characters only
JIRAError_init_prefix4(cls, response_text, status_code) ==
    LET sc == IF status_code # None THEN status_code ELSE ClassStatus(cls)
        xml == IF response_text # T_Empty /\ JsonFails(response_text)
                  /\ Slice(response_text, 4) = Slice(T_XmlMark, 4)
               THEN BeautifulStoneSoup(response_text) ELSE XmlNone
        json == IF response_text # T_Empty /\ ~JsonFails(response_text)
                THEN JsonLoads(response_text) ELSE JsonNone
    IN Value(cls, response_text, sc, json, xml, Slice(response_text, MSG_LEN), 0)

\* JIRAError.__init__ (cls is JIRAError or JIRAUnauthorized)
JIRAError_init(cls, response_text, status_code) ==
    LET sc == IF status_code # None THEN status_code ELSE ClassStatus(cls)
        xml == IF response_text # T_Empty /\ JsonFails(response_text)
                  /\ Slice(response_text, 5) = T_XmlMark
               THEN BeautifulStoneSoup(response_text) ELSE XmlNone
        json == IF response_text # T_Empty /\ ~JsonFails(response_text)
                THEN JsonLoads(response_text) ELSE JsonNone
    IN Value(cls, response_text, sc, json, xml, Slice(response_text, MSG_LEN), 0)

\* JIRAResponse.__init__
JIRAResponse_init(response_text, status_code) ==
    LET xml == IF response_text # T_Empty /\ JsonFails(response_text)
                  /\ Slice(response_text, 5) = T_XmlMark
               THEN BeautifulStoneSoup(response_text) ELSE XmlNone
        json == IF response_text # T_Empty /\ ~JsonFails(response_text)
                THEN JsonLoads(response_text) ELSE JsonNone
    IN Value("JIRAResponse", response_text, status_code, json, xml, T_Empty, 0)

\* cls.from_response(response)
Error_from_response(cls, response) ==
    JIRAError_init(cls, response.text, response.status_code)

Response_from_response(response) ==
    JIRAResponse_init(response.text, response.status_code)

\* the session object self._session
SessionValue(sid) == Value("Session", T_Empty, None, JsonNone, XmlNone, T_Empty, sid)

\* Python's None as a return value
NoneValue == Value("NoneType", T_Empty, None, JsonNone, XmlNone, T_Empty, 0)

\* one project's metadata object, metas["projects"][i]
MetaValue(m) == Value("Meta", T_Empty, None, JsonNone, XmlNone, T_Empty, m)

\* an exception of requests (or any other) raised while sending: its message,
\* and for a RequestException its attached response (status None: no response)
TransportError(ev) ==
    Value(ev.kind, ev.text, ev.status_code, JsonNone, XmlNone, ev.message, 0)

\* bool(response) of a requests response: response.ok
Truthy(status_code) == ~(400 <= status_code /\ status_code < 600)

-----------------------------------------------------------------------------
(* Clients and URLs *)

Clients == {"c1", "c2"}

\* JIRAClient.__init__: both clients are configured for the same instance
instance_url(c) == "https://jira.example"
username(c) == IF c = "c1" THEN "alice" ELSE "bob"

AUTH_URL == "/rest/auth/1/session"
PROJECT_URL == "/rest/api/2/project"
META_URL == "/rest/api/2/issue/createmeta"
CREATE_URL == "/rest/api/2/issue"
PRIORITIES_URL == "/rest/api/2/priority"
VERSIONS_URL == "/rest/api/2/project/%s/versions"
USERS_URL == "/rest/api/2/user/assignable/search"
ISSUE_URL == "/rest/api/2/issue/%s"

Projects == {"ABC"}
IssueKeys == {"ABC-1"}

\* a URL: its absolute prefix ("" when the URL is relative), its path (a
\* template when arg is given) and the argument formatted into the path
Url(path, arg) == [abs |-> "", path |-> path, arg |-> arg]
NoUrl == Url("", "")

\* make_request: a URL that does not start with "http" is prefixed
FullUrl(c, url) == IF url.abs = "" THEN [url EXCEPT !.abs = instance_url(c)] ELSE url

\* the URLs get_cached is called with
CachedUrls == {Url(PROJECT_URL, ""), Url(PRIORITIES_URL, "")}
                 \cup {Url(VERSIONS_URL, p) : p \in Projects}

\* CACHE_KEY % (full_url, self.instance_url)
CACHE_KEY(full_url, inst) == <<"SENTRY-JIRA", full_url, inst>>

\* the URLs of the operations that call make_request directly
RequestUrls == {Url(META_URL, ""), Url(USERS_URL, ""), Url(CREATE_URL, "")}
                  \cup {Url(ISSUE_URL, k) : k \in IssueKeys}

\* the keys of the shared cache: one for each URL of the client and instance
CacheKeys == {CACHE_KEY(u, instance_url(c)) : u \in CachedUrls \cup RequestUrls,
                                              c \in Clients}

-----------------------------------------------------------------------------
(* What the remote service and the transport may do to one HTTP call *)

Statuses == {200, 300, 401, 404, 500}

Event(kind, status_code, text, message) ==
    [kind |-> kind, status_code |-> status_code, text |-> text, message |-> message]

\* a response arrives: a 2xx response with one of the bodies, or another status
Responses(bodies) ==
    {Event("response", s, b, T_Empty) : s \in {x \in Statuses : 200 <= x /\ x < 300}, b \in bodies}
    \cup {Event("response", s, B_Garbage, T_Empty) : s \in Statuses}

\* sending raises: a ConnectionError, a RequestException without a response or
\* with one attached, or some other exception
Failures ==
    {Event("ConnectionError", None, T_Empty, T_Refused),
     Event("RequestException", None, T_Empty, T_Boom),
     Event("Exception", None, T_Empty, T_Boom)}
    \cup {Event("RequestException", s, B_Garbage, T_Boom) : s \in {300, 401, 500}}

GenericBodies == {B_Ok, B_Xml}
MetaBodies == {T_Empty, B_Garbage, B_EmptyObj, B_Null, B_Ok} \cup {B_Projects(n) : n \in ProjectCounts}

\* no HTTP call is made
NoEvent == Event("none", None, T_Empty, T_Empty)

\* The environments the client is run in: "full" lets every call meet every
\* status and every failure; "few" keeps a success, a refusal and a failure of
\* each call, for the runs in which time passes and two clients share the cache.
AuthEvents(env) ==
    IF env = "full" THEN Responses({B_Garbage}) \cup Failures
    ELSE {Event("response", s, B_Garbage, T_Empty) : s \in {200, 401}}

TargetEvents(env, url) ==
    IF env = "full"
    THEN Responses(IF url.path = META_URL THEN MetaBodies ELSE GenericBodies) \cup Failures
    ELSE {Event("response", 200, b, T_Empty) : b \in GenericBodies}
         \cup {Event("response", 500, B_Garbage, T_Empty),
               Event("ConnectionError", None, T_Empty, T_Refused)}

\* one HTTP call as it is sent
Call(kind, method, url, payload, verify, timeout) ==
    [kind |-> kind, method |-> method, url |-> url, payload |-> payload,
     verify |-> verify, timeout |-> timeout]

\* what came back from one HTTP call
Received(src, ev) ==
    [src |-> src, kind |-> ev.kind, status_code |-> ev.status_code,
     text |-> ev.text, message |-> ev.message]

-----------------------------------------------------------------------------
(* JIRAClient.get_session and JIRAClient.make_request *)

Outcome(sess, ok, posts, calls, events, raised, v) ==
    [session |-> sess, ok |-> ok, posts |-> posts, calls |-> calls,
     events |-> events, raised |-> raised, v |-> v]

\* the authentication POST: no verify and no timeout argument is passed
AuthCall(c) ==
    Call("auth", "post", FullUrl(c, Url(AUTH_URL, "")), username(c), "default", None)

\* HasSession testing an attribute that is never set
HasSession_never(sess) == FALSE

\* hasattr(self, '_session')
HasSession(sess) == sess # NoSession

\* AuthFailure without the branch for status >= 500
AuthFailure_no5xx(res) ==
    IF res.status_code = 401
    THEN Error_from_response("JIRAUnauthorized", res)
    ELSE Error_from_response("JIRAError", res)

\* the error get_session raises for an authentication response that is falsy
AuthFailure(res) ==
    IF res.status_code = 401
    THEN Error_from_response("JIRAUnauthorized", res)
    ELSE IF res.status_code >= 500
    THEN JIRAError_init("JIRAError", T_InternalError, None)
    ELSE Error_from_response("JIRAError", res)

\* the authentication POST was answered with a 2xx response
Authenticated(ev) ==
    ev.kind = "response" /\ 200 <= ev.status_code /\ ev.status_code < 300

\* get_session on client c whose _session is sess (ok: its authentication POST
\* was answered 2xx); sid is the object build_session() would return and ev
\* what happens to the authentication POST
get_session(c, sess, ok, sid, ev) ==
    IF HasSession(sess)
    THEN Outcome(sess, ok, 0, << >>, << >>, FALSE, SessionValue(sess))
    ELSE LET calls == <<AuthCall(c)>>
             events == <<Received("auth", ev)>>
             authed == Authenticated(ev)
         IN IF ev.kind # "response"
            THEN Outcome(sid, authed, 1, calls, events, TRUE, TransportError(ev))
            ELSE IF ~Truthy(ev.status_code)
            THEN Outcome(sid, authed, 1, calls, events, TRUE, AuthFailure(ev))
            ELSE Outcome(sid, authed, 1, calls, events, FALSE, SessionValue(sid))

\* HandleException letting an unexpected exception through as it is
HandleException_reraise(e) ==
    IF e.cls = "ConnectionError"
    THEN JIRAError_init("JIRAError", e.message, None)
    ELSE IF e.cls = "RequestException"
    THEN IF e.status_code = None \/ ~Truthy(e.status_code)
         THEN JIRAError_init("JIRAError", T_InternalError, None)
         ELSE IF e.status_code = 401
         THEN Error_from_response("JIRAUnauthorized", e)
         ELSE Error_from_response("JIRAError", e)
    ELSE e

\* HandleException tagging a connection failure with status 500
HandleException_conn500(e) ==
    IF e.cls = "ConnectionError"
    THEN JIRAError_init("JIRAError", e.message, 500)
    ELSE IF e.cls = "RequestException"
    THEN IF e.status_code = None \/ ~Truthy(e.status_code)
         THEN JIRAError_init("JIRAError", T_InternalError, None)
         ELSE IF e.status_code = 401
         THEN Error_from_response("JIRAUnauthorized", e)
         ELSE Error_from_response("JIRAError", e)
    ELSE JIRAError_init("JIRAError", T_InternalErrorLower, 500)

\* the except clauses of make_request, applied to exception e raised in its try block
HandleException(e) ==
    IF e.cls = "ConnectionError"
    THEN JIRAError_init("JIRAError", e.message, None)
    ELSE IF e.cls = "RequestException"
    THEN IF e.status_code = None \/ ~Truthy(e.status_code)
         THEN JIRAError_init("JIRAError", T_InternalError, None)
         ELSE IF e.status_code = 401
         THEN Error_from_response("JIRAUnauthorized", e)
         ELSE Error_from_response("JIRAError", e)
    ELSE JIRAError_init("JIRAError", T_InternalErrorLower, 500)

\* the GET or POST to the target URL
TargetCall(method, full, payload) ==
    Call("target", method, full, payload, "False", HTTP_TIMEOUT)

\* CheckStatus with the upper end of the success range off by one
CheckStatus_upto300(r) ==
    IF r.status_code = 401
    THEN [raised |-> TRUE, v |-> Error_from_response("JIRAUnauthorized", r)]
    ELSE IF r.status_code < 200 \/ r.status_code > 300
    THEN [raised |-> TRUE, v |-> Error_from_response("JIRAError", r)]
    ELSE [raised |-> FALSE, v |-> Response_from_response(r)]

\* CheckStatus without the test for status 401
CheckStatus_no401(r) ==
    IF r.status_code < 200 \/ r.status_code >= 300
    THEN [raised |-> TRUE, v |-> Error_from_response("JIRAError", r)]
    ELSE [raised |-> FALSE, v |-> Response_from_response(r)]

\* the status checks after the try block of make_request
CheckStatus(r) ==
    IF r.status_code = 401
    THEN [raised |-> TRUE, v |-> Error_from_response("JIRAUnauthorized", r)]
    ELSE IF r.status_code < 200 \/ r.status_code >= 300
    THEN [raised |-> TRUE, v |-> Error_from_response("JIRAError", r)]
    ELSE [raised |-> FALSE, v |-> Response_from_response(r)]

\* make_request sending the request a second time when sending raised
make_request_retry(c, sess, ok, sid, method, url, payload, evA, evT) ==
    LET full == FullUrl(c, url)
        gs == get_session(c, sess, ok, sid, evA)
    IN IF gs.raised
       THEN [gs EXCEPT !.v = HandleException(gs.v)]
       ELSE LET calls == gs.calls \o <<TargetCall(method, full, payload)>>
                events == gs.events \o <<Received("target", evT)>>
            IN IF evT.kind # "response"
               THEN Outcome(gs.session, gs.ok, gs.posts,
                            calls \o <<TargetCall(method, full, payload)>>,
                            events \o <<Received("target", evT)>>, TRUE,
                            HandleException(TransportError(evT)))
               ELSE LET res == CheckStatus(evT)
                    IN Outcome(gs.session, gs.ok, gs.posts, calls, events,
                               res.raised, res.v)

\* make_request(method, url, payload) on client c; evA is what happens to the
\* authentication POST (when one is sent), evT what happens to the GET/POST
make_request(c, sess, ok, sid, method, url, payload, evA, evT) ==
    LET full == FullUrl(c, url)
        gs == get_session(c, sess, ok, sid, evA)
    IN IF gs.raised
       THEN [gs EXCEPT !.v = HandleException(gs.v)]
       ELSE LET calls == gs.calls \o <<TargetCall(method, full, payload)>>
                events == gs.events \o <<Received("target", evT)>>
            IN IF evT.kind # "response"
               THEN Outcome(gs.session, gs.ok, gs.posts, calls, events, TRUE,
                            HandleException(TransportError(evT)))
               ELSE LET res == CheckStatus(evT)
                    IN Outcome(gs.session, gs.ok, gs.posts, calls, events,
                               res.raised, res.v)

-----------------------------------------------------------------------------
(* The read cache and the endpoint facade *)

NoEntry == [set |-> FALSE, value |-> NoneValue, expires |-> 0, at |-> 0]

\* cache.get(key): the stored value while it has not expired
cache_get(store, key, t) ==
    IF store[key].set /\ t < store[key].expires
    THEN [found |-> TRUE, value |-> store[key].value]
    ELSE [found |-> FALSE, value |-> NoneValue]

\* cache.set(key, value, timeout) at time t
cache_set(store, key, value, timeout, t) ==
    [store EXCEPT ![key] = [set |-> TRUE, value |-> value, expires |-> t + timeout,
                            at |-> t]]

\* get_cached answering from the cache only for a client that holds a session
get_cached_own_session(c, sess, ok, sid, store, t, full_url, evA, evT) ==
    LET key == CACHE_KEY(full_url, instance_url(c))
        cached_result == cache_get(store, key, t)
    IN IF cached_result.found /\ HasSession(sess)
       THEN [out |-> Outcome(sess, ok, 0, << >>, << >>, FALSE, cached_result.value),
             store |-> store]
       ELSE LET r == make_request(c, sess, ok, sid, "get", full_url, "None", evA, evT)
            IN IF r.raised
               THEN [out |-> r, store |-> store]
               ELSE [out |-> r, store |-> cache_set(store, key, r.v, CACHE_TTL, t)]

\* get_cached storing whatever make_request ended with, an error included
get_cached_store_error(c, sess, ok, sid, store, t, full_url, evA, evT) ==
    LET key == CACHE_KEY(full_url, instance_url(c))
        cached_result == cache_get(store, key, t)
    IN IF cached_result.found
       THEN [out |-> Outcome(sess, ok, 0, << >>, << >>, FALSE, cached_result.value),
             store |-> store]
       ELSE LET r == make_request(c, sess, ok, sid, "get", full_url, "None", evA, evT)
            IN [out |-> r, store |-> cache_set(store, key, r.v, CACHE_TTL, t)]

\* get_cached(full_url): the outcome and the cache afterwards
get_cached(c, sess, ok, sid, store, t, full_url, evA, evT) ==
    LET key == CACHE_KEY(full_url, instance_url(c))
        cached_result == cache_get(store, key, t)
    IN IF cached_result.found
       THEN [out |-> Outcome(sess, ok, 0, << >>, << >>, FALSE, cached_result.value),
             store |-> store]
       ELSE LET r == make_request(c, sess, ok, sid, "get", full_url, "None", evA, evT)
            IN IF r.raised
               THEN [out |-> r, store |-> store]
               ELSE [out |-> r, store |-> cache_set(store, key, r.v, CACHE_TTL, t)]

\* "not metas" for the parsed body
Falsy(json) == json.kind = "None" \/ (json.kind = "dict" /\ json.keys = {})

\* get_create_meta(project)
get_create_meta(c, sess, ok, sid, project, evA, evT) ==
    make_request(c, sess, ok, sid, "get", Url(META_URL, ""), "projectKeys", evA, evT)

KeyError == Value("KeyError", T_Empty, None, JsonNone, XmlNone, T_Empty, 0)

\* SingleProject accepting two projects
SingleProject_two(metas) ==
    IF Falsy(metas) THEN [raised |-> FALSE, v |-> NoneValue]
    ELSE IF "projects" \notin metas.keys THEN [raised |-> TRUE, v |-> KeyError]
    ELSE IF Len(metas.projects) > 2
    THEN [raised |-> TRUE, v |-> JIRAError_init("JIRAError", T_MoreThanOne, None)]
    ELSE IF Len(metas.projects) = 0 THEN [raised |-> FALSE, v |-> NoneValue]
    ELSE [raised |-> FALSE, v |-> MetaValue(metas.projects[1])]

\* what get_create_meta_for_project makes of the parsed body metas
SingleProject(metas) ==
    IF Falsy(metas) THEN [raised |-> FALSE, v |-> NoneValue]
    ELSE IF "projects" \notin metas.keys THEN [raised |-> TRUE, v |-> KeyError]
    ELSE IF Len(metas.projects) > 1
    THEN [raised |-> TRUE, v |-> JIRAError_init("JIRAError", T_MoreThanOne, None)]
    ELSE IF Len(metas.projects) = 0 THEN [raised |-> FALSE, v |-> NoneValue]
    ELSE [raised |-> FALSE, v |-> MetaValue(metas.projects[1])]

\* get_create_meta_for_project(project)
get_create_meta_for_project(c, sess, ok, sid, project, evA, evT) ==
    LET response == get_create_meta(c, sess, ok, sid, project, evA, evT)
        res == SingleProject(response.v.json)
    IN IF response.raised THEN response
       ELSE [response EXCEPT !.raised = res.raised, !.v = res.v]

-----------------------------------------------------------------------------
(* The state machine: one client operation per step, run to completion *)

Threads == {"t1", "t2"}

OpRecord(op, c, url, t, out) ==
    [op |-> op, client |-> c, url |-> url, time |-> t,
     calls |-> out.calls, events |-> out.events, raised |-> out.raised, v |-> out.v]

\* the target requests and the authentication POSTs among the calls of an operation
TargetCalls(calls) == {i \in DOMAIN calls : calls[i].kind = "target"}
AuthCalls(calls) == {i \in DOMAIN calls : calls[i].kind = "auth"}

NoOutcome == Outcome(NoSession, FALSE, 0, << >>, << >>, FALSE, NoneValue)

Init ==
    /\ session = [c \in Clients |-> NoSession]
    /\ authOK = [c \in Clients |-> FALSE]
    /\ authPosts = [c \in Clients |-> 0]
    /\ nextSid = 1
    /\ cache = [k \in CacheKeys |-> NoEntry]
    /\ now = 0
    /\ last = OpRecord("init", "c1", NoUrl, 0, NoOutcome)
    /\ pc = [t \in Threads |-> "idle"]
    /\ tres = [t \in Threads |-> NoSession]

\* what may happen to the authentication POST of client c, if one is sent
AuthChoices(env, c) ==
    IF HasSession(session[c]) THEN {NoEvent} ELSE AuthEvents(env)

\* what may happen to the target request after get_session ended as gs
TargetChoices(env, url, gs) ==
    IF gs.raised THEN {NoEvent} ELSE TargetEvents(env, url)

\* the effect of a finished operation on the client and on the history
Finish(op, c, url, out) ==
    /\ session' = [session EXCEPT ![c] = out.session]
    /\ authOK' = [authOK EXCEPT ![c] = out.ok]
    /\ authPosts' = [authPosts EXCEPT ![c] = @ + out.posts]
    /\ nextSid' = IF out.posts > 0 THEN nextSid + 1 ELSE nextSid
    /\ last' = OpRecord(op, c, url, now, out)
    /\ UNCHANGED <<now, pc, tres>>

GetSession(env, c) ==
    /\ \E ev \in AuthChoices(env, c) :
         Finish("get_session", c, NoUrl,
                get_session(c, session[c], authOK[c], nextSid, ev))
    /\ UNCHANGED cache

\* an operation that is one make_request call
Request(env, op, c, method, url, payload) ==
    /\ \E evA \in AuthChoices(env, c) :
         \E evT \in TargetChoices(env, url,
                      get_session(c, session[c], authOK[c], nextSid, evA)) :
           Finish(op, c, url,
                  make_request(c, session[c], authOK[c], nextSid, method, url,
                               payload, evA, evT))
    /\ UNCHANGED cache

\* an operation that is one get_cached call
Cached(env, op, c, url) ==
    LET hit == cache_get(cache, CACHE_KEY(url, instance_url(c)), now).found
    IN \E evA \in (IF hit THEN {NoEvent} ELSE AuthChoices(env, c)) :
         \E evT \in (IF hit THEN {NoEvent}
                     ELSE TargetChoices(env, url,
                            get_session(c, session[c], authOK[c], nextSid, evA))) :
           LET r == get_cached(c, session[c], authOK[c], nextSid, cache, now,
                               url, evA, evT)
           IN /\ Finish(op, c, url, r.out)
              /\ cache' = r.store

GetProjectsList(env, c) == Cached(env, "get_projects_list", c, Url(PROJECT_URL, ""))

GetCreateMeta(env, c, project) ==
    Request(env, "get_create_meta", c, "get", Url(META_URL, ""), "projectKeys")

GetCreateMetaForProject(env, c, project) ==
    /\ \E evA \in AuthChoices(env, c) :
         \E evT \in TargetChoices(env, Url(META_URL, ""),
                      get_session(c, session[c], authOK[c], nextSid, evA)) :
           Finish("get_create_meta_for_project", c, Url(META_URL, ""),
                  get_create_meta_for_project(c, session[c], authOK[c], nextSid,
                                              project, evA, evT))
    /\ UNCHANGED cache

GetVersions(env, c, project) == Cached(env, "get_versions", c, Url(VERSIONS_URL, project))

GetPriorities(env, c) == Cached(env, "get_priorities", c, Url(PRIORITIES_URL, ""))

GetUsersForProject(env, c, project) ==
    Request(env, "get_users_for_project", c, "get", Url(USERS_URL, ""), "project")

CreateIssue(env, c) == Request(env, "create_issue", c, "post", Url(CREATE_URL, ""), "fields")

\* get_issue going through get_cached
GetIssue_cached(env, c, key) == Cached(env, "get_issue", c, Url(ISSUE_URL, key))

GetIssue(env, c, key) == Request(env, "get_issue", c, "get", Url(ISSUE_URL, key), "None")

\* time passes between operations, half of the modelled span at a time
TickStep == MaxTime \div 2

Tick ==
    /\ now + TickStep <= MaxTime
    /\ now' = now + TickStep
    /\ UNCHANGED <<session, authOK, authPosts, nextSid, cache, last, pc, tres>>

\* One client, every operation, every outcome of every call.
Next ==
    \/ GetSession("full", "c1")
    \/ GetProjectsList("full", "c1")
    \/ \E p \in Projects : GetCreateMeta("full", "c1", p)
    \/ \E p \in Projects : GetCreateMetaForProject("full", "c1", p)
    \/ \E p \in Projects : GetVersions("full", "c1", p)
    \/ GetPriorities("full", "c1")
    \/ \E p \in Projects : GetUsersForProject("full", "c1", p)
    \/ CreateIssue("full", "c1")
    \/ \E k \in IssueKeys : GetIssue("full", "c1", k)

Spec == Init /\ [][Next]_vars

\* Two clients of one instance sharing the cache while time passes.
NextCache ==
    \/ \E c \in Clients : GetSession("few", c)
    \/ \E c \in Clients : GetProjectsList("few", c)
    \/ \E c \in Clients : GetPriorities("few", c)
    \/ \E c \in Clients, k \in IssueKeys : GetIssue("few", c, k)
    \/ Tick

SpecCache == Init /\ [][NextCache]_vars

-----------------------------------------------------------------------------
(* Two threads calling get_session on one client, statement by statement *)

Shared == "c1"

\* a thread calls get_session
Enter(t) ==
    /\ pc[t] \in {"idle", "done", "raised"}
    /\ pc' = [pc EXCEPT ![t] = "check"]
    /\ tres' = [tres EXCEPT ![t] = NoSession]
    /\ UNCHANGED <<session, authOK, authPosts, nextSid, cache, now, last>>

\* if not hasattr(self, '_session')
CheckAttr(t) ==
    /\ pc[t] = "check"
    /\ pc' = [pc EXCEPT ![t] = IF HasSession(session[Shared]) THEN "return" ELSE "build"]
    /\ UNCHANGED <<session, authOK, authPosts, nextSid, cache, now, last, tres>>

\* self._session = build_session()
Build(t) ==
    /\ pc[t] = "build"
    /\ session' = [session EXCEPT ![Shared] = nextSid]
    /\ nextSid' = nextSid + 1
    /\ pc' = [pc EXCEPT ![t] = "post"]
    /\ UNCHANGED <<authOK, authPosts, cache, now, last, tres>>

\* res = self._session.post(...) and the checks of res
Post(t) ==
    /\ pc[t] = "post"
    /\ \E ev \in AuthEvents("few") :
         LET r == get_session(Shared, NoSession, FALSE, session[Shared], ev)
         IN /\ authOK' = [authOK EXCEPT ![Shared] = @ \/ r.ok]
            /\ pc' = [pc EXCEPT ![t] = IF r.raised THEN "raised" ELSE "return"]
    /\ authPosts' = [authPosts EXCEPT ![Shared] = @ + 1]
    /\ UNCHANGED <<session, nextSid, cache, now, last, tres>>

\* return self._session
Return(t) ==
    /\ pc[t] = "return"
    /\ tres' = [tres EXCEPT ![t] = session[Shared]]
    /\ pc' = [pc EXCEPT ![t] = "done"]
    /\ UNCHANGED <<session, authOK, authPosts, nextSid, cache, now, last>>

NextConc ==
    \/ \E t \in Threads : Enter(t)
    \/ \E t \in Threads : CheckAttr(t)
    \/ \E t \in Threads : Build(t)
    \/ \E t \in Threads : Post(t)
    \/ \E t \in Threads : Return(t)

SpecConc == Init /\ [][NextConc]_vars

-----------------------------------------------------------------------------
(* Constructing responses and errors from a body text and a status code *)

\* the body texts the constructors are given
ParseBodies ==
    {T_Empty, B_Garbage, B_Xml, B_XmlShort, B_XmlSpace, B_EmptyObj, B_Null, B_Ok}
    \cup {B_Projects(n) : n \in ProjectCounts}

Constructed(op, v) ==
    /\ last' = OpRecord(op, "c1", NoUrl, now,
                        Outcome(NoSession, FALSE, 0, << >>, << >>, FALSE, v))
    /\ UNCHANGED <<session, authOK, authPosts, nextSid, cache, now, pc, tres>>

\* JIRAError(response_text, status_code) or JIRAUnauthorized(...); the status
\* code defaults to None
NewError(cls) ==
    \E text \in ParseBodies, s \in Statuses \cup {None} :
        Constructed(cls, JIRAError_init(cls, text, s))

\* JIRAResponse(response_text, status_code)
NewResponse ==
    \E text \in ParseBodies, s \in Statuses :
        Constructed("JIRAResponse", JIRAResponse_init(text, s))

NextParse ==
    \/ NewError("JIRAError")
    \/ NewError("JIRAUnauthorized")
    \/ NewResponse

SpecParse == Init /\ [][NextParse]_vars

-----------------------------------------------------------------------------
(* Properties *)

RequestOps == {"get_create_meta", "get_users_for_project", "create_issue", "get_issue"}
CachedOps == {"get_projects_list", "get_versions", "get_priorities"}

\* the operation returned or raised what one make_request call returned or raised
IsMakeRequest(rec) ==
    rec.op \in RequestOps \/ (rec.op \in CachedOps /\ rec.calls # << >>)

\* the operation called make_request
CallsMakeRequest(rec) ==
    IsMakeRequest(rec) \/ (rec.op = "get_create_meta_for_project")

\* the events of an operation that came from src
EventsFrom(rec, src) == {i \in DOMAIN rec.events : rec.events[i].src = src}

\* the response the target endpoint sent, if the operation received one
TargetResponses(rec) ==
    {i \in EventsFrom(rec, "target") : rec.events[i].kind = "response"}

Is2xx(status_code) == 200 <= status_code /\ status_code < 300

IsError(rec, cls) == rec.raised /\ rec.v.cls = cls

\* C1: an operation through make_request that received a 401 (from the target,
\* attached to a transport exception, or from the authentication endpoint)
\* fails with JIRAUnauthorized.
C1_Status401IsUnauthorized ==
    (CallsMakeRequest(last)
        /\ \E i \in DOMAIN last.events : last.events[i].status_code = 401)
    => IsError(last, "JIRAUnauthorized")

\* C2: a response from the target endpoint with status in [200,300) is returned
\* as a Response with that status and body; one with another status that is not
\* 401 is raised as a JIRAError with that status and body.
C2_StatusDecidesOutcome ==
    IsMakeRequest(last) =>
        \A i \in TargetResponses(last) :
            LET r == last.events[i]
            IN IF Is2xx(r.status_code)
               THEN /\ ~last.raised
                    /\ last.v.cls = "JIRAResponse"
                    /\ last.v.status_code = r.status_code
                    /\ last.v.text = r.text
               ELSE r.status_code # 401 =>
                    /\ IsError(last, "JIRAError")
                    /\ last.v.status_code = r.status_code
                    /\ last.v.text = r.text

\* a POST answered 404: the JIRAError carries the status and the body
C2_Witness ==
    /\ last.op = "create_issue"
    /\ \E i \in TargetResponses(last) : last.events[i].status_code = 404
    /\ IsError(last, "JIRAError")
    /\ last.v.status_code = 404
    /\ last.v.text = B_Garbage

\* the key a get_cached operation used
KeyOf(rec) == CACHE_KEY(rec.url, instance_url(rec.client))

Gets(rec) == Cardinality(TargetCalls(rec.calls))

\* C3 as stated: two get_cached calls of a client with the same URL less than
\* 60 seconds apart send exactly one GET, the second returning the stored
\* Response; a call made once the entry has expired sends a GET.
C3_TwoCallsOneGet ==
    [][(last' # last /\ last'.op \in CachedOps) =>
        /\ (last.op = last'.op /\ last.client = last'.client /\ last.url = last'.url
              /\ now - last.time < 60)
           => (Gets(last) + Gets(last') = 1 /\ last'.calls = << >> /\ ~last'.raised)
        /\ (cache[KeyOf(last')].set /\ now - cache[KeyOf(last')].at >= 60)
           => Gets(last') = 1
      ]_vars

\* C3, amended: a get_cached call made less than 60 seconds after the call that
\* stored the entry sends nothing and returns the stored Response, leaving the
\* cache as it is; a call made 60 seconds or more after it, by a client that
\* has its session, sends exactly one GET to the URL.
C3_StoredForSixtySeconds ==
    [][(last' # last /\ last'.op \in CachedOps) =>
        LET e == cache[KeyOf(last')]
        IN /\ (e.set /\ now - e.at < 60)
              => /\ last'.calls = << >>
                 /\ ~last'.raised
                 /\ last'.v = e.value
                 /\ cache' = cache
           /\ (e.set /\ now - e.at >= 60 /\ session[last'.client] # NoSession)
              => /\ Gets(last') = 1
                 /\ \A i \in TargetCalls(last'.calls) :
                      /\ last'.calls[i].method = "get"
                      /\ last'.calls[i].url = FullUrl(last'.client, last'.url)
      ]_vars

\* a call answered from the cache 30 seconds after the entry was stored
C3_Witness ==
    /\ last.op \in CachedOps
    /\ last.calls = << >>
    /\ ~last.raised
    /\ cache[KeyOf(last)].set
    /\ last.v = cache[KeyOf(last)].value
    /\ last.time > cache[KeyOf(last)].at
    /\ last.time - cache[KeyOf(last)].at < 60

\* C4: no client ever sends more than one authentication POST, and once a
\* client has authenticated its session object is never replaced and every
\* later get_session returns it without a POST.
C4_AuthenticatesOnce ==
    /\ [](\A c \in Clients : authPosts[c] <= 1)
    /\ [][\A c \in Clients : authOK[c] =>
            /\ session'[c] = session[c]
            /\ authPosts'[c] = authPosts[c]
            /\ (last' # last /\ last'.client = c /\ last'.op = "get_session")
               => /\ ~last'.raised
                  /\ last'.v = SessionValue(session[c])
                  /\ last'.calls = << >>
         ]_vars

\* a get_session call on a client that has authenticated before
C4_Witness ==
    /\ last.op = "get_session"
    /\ last.calls = << >>
    /\ ~last.raised
    /\ authOK[last.client]
    /\ authPosts[last.client] = 1
    /\ last.v = SessionValue(session[last.client])

\* C5: two threads calling get_session on a client without a session send one
\* authentication POST between them and obtain the same session.
C5_ConcurrentAuthenticatesOnce ==
    /\ authPosts[Shared] <= 1
    /\ \A t, u \in Threads : (pc[t] = "done" /\ pc[u] = "done") => tres[t] = tres[u]

C7_TypedErrors ==
    IsMakeRequest(last) =>
        IF \E i \in TargetResponses(last) : Is2xx(last.events[i].status_code)
        THEN ~last.raised /\ last.v.cls = "JIRAResponse"
        ELSE last.raised /\ last.v.cls \in {"JIRAError", "JIRAUnauthorized"}

\* an unexpected exception while sending, raised as JIRAError 500
C7_Witness ==
    /\ IsMakeRequest(last)
    /\ \E i \in EventsFrom(last, "target") : last.events[i].kind = "Exception"
    /\ IsError(last, "JIRAError")
    /\ last.v.status_code = 500

\* C8: a ConnectionError while make_request obtains the session or sends the
\* request is raised as a JIRAError with the exception's message as text and no
\* status code.
C8_ConnectionFailure ==
    IsMakeRequest(last) =>
        \A i \in DOMAIN last.events :
            last.events[i].kind = "ConnectionError"
            => /\ IsError(last, "JIRAError")
               /\ last.v.text = last.events[i].message
               /\ last.v.status_code = None

\* the connection is refused while make_request obtains the session
C8_Witness ==
    /\ IsMakeRequest(last)
    /\ \E i \in EventsFrom(last, "auth") : last.events[i].kind = "ConnectionError"
    /\ IsError(last, "JIRAError")
    /\ last.v.text = T_Refused
    /\ last.v.status_code = None

\* C9: every HTTP call is sent with certificate verification disabled and a
\* timeout of 5 seconds.
C9_AllCallsUnverifiedWithTimeout ==
    \A i \in DOMAIN last.calls :
        last.calls[i].verify = "False" /\ last.calls[i].timeout = 5

\* C10: get_create_meta_for_project on a 2xx response: one project listed is
\* returned, two or more raise JIRAError 'More than one project found.', an
\* empty list and an empty or absent parsed body return None.
C10_SingleProject ==
    last.op = "get_create_meta_for_project" =>
        \A i \in TargetResponses(last) :
            Is2xx(last.events[i].status_code) =>
                LET body == last.events[i].text
                IN /\ body = B_Projects(1)
                      => (~last.raised /\ last.v = MetaValue(1))
                   /\ (\E n \in 2..MaxProjects : body = B_Projects(n))
                      => /\ IsError(last, "JIRAError")
                         /\ last.v.text = T_MoreThanOne
                         /\ last.v.status_code = None
                   /\ body \in {B_Projects(0), B_EmptyObj, B_Null, T_Empty, B_Garbage}
                      => (~last.raised /\ last.v = NoneValue)

\* createmeta answered with two projects
C10_Witness ==
    /\ last.op = "get_create_meta_for_project"
    /\ \E i \in TargetResponses(last) :
         last.events[i].status_code = 200 /\ last.events[i].text = B_Projects(2)
    /\ IsError(last, "JIRAError")
    /\ last.v.text = T_MoreThanOne

\* C11: get_create_meta_for_project on a 2xx response whose parsed body is a
\* non-empty document without a 'projects' entry returns None and raises
\* nothing.
C11_NoProjectsEntryIsNone ==
    last.op = "get_create_meta_for_project" =>
        \A i \in TargetResponses(last) :
            (Is2xx(last.events[i].status_code) /\ last.events[i].text = B_Ok)
            => (~last.raised /\ last.v = NoneValue)

Constructors == {"JIRAError", "JIRAUnauthorized", "JIRAResponse"}

\* the body texts that are valid JSON
C12_ValidJson == {B_EmptyObj, B_Null, B_Ok} \cup {B_Projects(n) : n \in ProjectCounts}

\* C12 as stated: a constructed response or error has a structured document
\* and no XML tree when the body is non-empty valid JSON, an XML tree and no
\* document when the body is not JSON and begins with '<?xml', and neither
\* otherwise.
C12_ParsedFormAsStated ==
    last.op \in Constructors =>
        LET v == last.v
        IN /\ ~last.raised
           /\ IF v.text # T_Empty /\ v.text \in C12_ValidJson
              THEN v.json # JsonNone /\ v.xml = XmlNone
              ELSE IF v.text # T_Empty /\ Slice(v.text, 5) = T_XmlMark
              THEN v.json = JsonNone /\ v.xml # XmlNone
              ELSE v.json = JsonNone /\ v.xml = XmlNone

\* C12 (amended): a constructed response or error has a structured document
\* and no XML tree when the body is non-empty valid JSON other than the
\* literal null, an XML tree and no document when the body is not JSON and
\* begins with '<?xml', and neither otherwise (empty body, the literal null,
\* or any other text); json and xml are never both set, construction does not
\* raise, and two constructions from the same text agree on json and xml
\* whatever their classes.
C12_ParsedForm ==
    /\ [](last.op \in Constructors =>
            LET v == last.v
            IN /\ ~last.raised
               /\ ~(v.json # JsonNone /\ v.xml # XmlNone)
               /\ IF v.text # T_Empty /\ v.text \in C12_ValidJson \ {B_Null}
                  THEN v.json.kind = "dict" /\ v.xml = XmlNone
                  ELSE IF v.text # T_Empty /\ v.text \notin C12_ValidJson
                          /\ Slice(v.text, 5) = T_XmlMark
                  THEN v.json = JsonNone /\ v.xml = BeautifulStoneSoup(v.text)
                  ELSE v.json = JsonNone /\ v.xml = XmlNone)
    /\ [][(last.op \in Constructors /\ last'.op \in Constructors
           /\ last'.v.text = last.v.text)
          => (last'.v.json = last.v.json /\ last'.v.xml = last.v.xml)]_vars

C12_Witness ==
    /\ last.op = "JIRAError"
    /\ last.v.text = B_Xml
    /\ last.v.xml = BeautifulStoneSoup(B_Xml)
    /\ last.v.json = JsonNone

\* C13: get_create_meta, get_users_for_project, get_issue and create_issue
\* send a request to the remote service on every call and leave every cache
\* entry as it was, whatever came before; the cache only ever holds entries
\* for the URLs of get_projects_list, get_versions and get_priorities, and
\* these three return a live entry without sending anything.
C13_OnlyThreeOperationsCached ==
    /\ [](last.op \in RequestOps => last.calls # << >>)
    /\ [](\A k \in CacheKeys : cache[k].set => k[2] \in CachedUrls)
    /\ [][last'.op \in RequestOps => cache' = cache]_vars
    /\ [][(last'.op \in CachedOps /\ cache[KeyOf(last')].set
             /\ now < cache[KeyOf(last')].expires)
          => (last'.calls = << >> /\ last'.v = cache[KeyOf(last')].value)]_vars
    /\ [][(last'.op \in CachedOps /\ ~cache[KeyOf(last')].set)
          => (last'.calls # << >>
              /\ (~last'.raised => (cache'[KeyOf(last')].set
                                    /\ cache'[KeyOf(last')].value = last'.v)))]_vars

\* get_issue sent its GET and got a response while the cache held an entry
C13_Witness ==
    /\ last.op = "get_issue"
    /\ Gets(last) = 1
    /\ ~last.raised
    /\ \E k \in CacheKeys : cache[k].set
    /\ ~cache[KeyOf(last)].set

\* C14: when sending the target request raises a RequestException that is not
\* a ConnectionError, make_request raises JIRAError 'Internal Error' if the
\* exception has no response, JIRAUnauthorized built from the response if the
\* attached response has status 401, and otherwise a JIRAError with the
\* attached response's status and body.
C14_TransportExceptionWithResponse ==
    IsMakeRequest(last) =>
        \A i \in EventsFrom(last, "target") :
            LET e == last.events[i]
            IN e.kind = "RequestException" =>
                 IF e.status_code = None
                 THEN IsError(last, "JIRAError") /\ last.v.text = T_InternalError
                 ELSE IF e.status_code = 401
                 THEN /\ IsError(last, "JIRAUnauthorized")
                      /\ last.v.status_code = 401
                      /\ last.v.text = e.text
                 ELSE /\ IsError(last, "JIRAError")
                      /\ last.v.status_code = e.status_code
                      /\ last.v.text = e.text

\* C15: one make_request call sends at most one request to the target URL,
\* after at most one authentication POST; a failed authentication raises
\* without a request to the target, and a failed request to the target (sending
\* raised, or the status is outside [200,300)) is the last thing the call
\* sends and the call raises.
C15_SingleAttempt ==
    CallsMakeRequest(last) =>
        /\ Cardinality(TargetCalls(last.calls)) <= 1
        /\ Cardinality(AuthCalls(last.calls)) <= 1
        /\ Len(last.events) = Len(last.calls)
        /\ \A i \in AuthCalls(last.calls), j \in TargetCalls(last.calls) : i < j
        /\ \A j \in TargetCalls(last.calls) :
             /\ last.calls[j].url = FullUrl(last.client, last.url)
             /\ last.calls[j].method \in {"get", "post"}
        /\ \A i \in EventsFrom(last, "auth") :
             (last.events[i].kind # "response" \/ ~Truthy(last.events[i].status_code))
             => (last.raised /\ TargetCalls(last.calls) = {})
        /\ \A j \in EventsFrom(last, "target") :
             (last.events[j].kind # "response" \/ ~Is2xx(last.events[j].status_code))
             => (last.raised /\ j = Len(last.calls))

\* sending the request to the target raised: one attempt, and the error is raised
C15_Witness ==
    /\ IsMakeRequest(last)
    /\ Gets(last) = 1
    /\ \E j \in EventsFrom(last, "target") : last.events[j].kind = "RequestException"
    /\ last.raised

\* C16: after a get_session call that failed authentication the client holds
\* no session, and no request is sent to a target URL by a client whose
\* authentication did not succeed.
C16_NoSessionAfterFailedAuthentication ==
    /\ (last.op = "get_session" /\ last.raised) => session[last.client] = NoSession
    /\ (CallsMakeRequest(last) /\ TargetCalls(last.calls) # {})
       => \/ authOK[last.client]
          \/ \E i \in EventsFrom(last, "auth") :
               /\ last.events[i].kind = "response"
               /\ Truthy(last.events[i].status_code)

\* a cached operation by another client, with other credentials and the same
\* instance base URL, for the URL whose entry the last operation stored less
\* than 60 seconds ago
OtherClientWithinTTL ==
    /\ last' # last
    /\ last'.op \in CachedOps
    /\ last.op = last'.op
    /\ last.url = last'.url
    /\ last.client # last'.client
    /\ username(last.client) # username(last'.client)
    /\ instance_url(last.client) = instance_url(last'.client)
    /\ Gets(last) = 1
    /\ ~last.raised
    /\ now - last.time < 60

\* C17 as stated: a client whose credentials differ from those of the client
\* that filled an entry does not receive that entry: its get_cached call sends
\* its own requests.
C17_EntryOnlyForOwnCredentials ==
    [][OtherClientWithinTTL => last'.calls # << >>]_vars

\* C17 (amended): a get_cached call returns the live entry stored under the
\* URL and the instance base URL to any client of that instance, whatever its
\* username and password and whether or not it has authenticated: it sends
\* nothing, returns the Response the filling client obtained, and leaves the
\* calling client's session as it was.
C17_EntrySharedByInstance ==
    [][OtherClientWithinTTL =>
        /\ last'.calls = << >>
        /\ ~last'.raised
        /\ last'.v = last.v
        /\ session' = session
        /\ authPosts' = authPosts
        /\ cache' = cache]_vars

\* bob, who never authenticated, is handed the Response alice's request stored
C17_Witness ==
    /\ last.op \in CachedOps
    /\ last.client = "c2"
    /\ session["c2"] = NoSession
    /\ authPosts["c2"] = 0
    /\ authOK["c1"]
    /\ last.calls = << >>
    /\ ~last.raised
    /\ last.v = cache[KeyOf(last)].value
    /\ last.v.cls = "JIRAResponse"

\* C18: when the make_request of a get_cached call raises, the operation
\* raises that JIRAError or JIRAUnauthorized and the cache is left as it was;
\* every stored value is a Response with status in [200,300); and the next
\* call of the same operation for the same URL sends a request again.
C18_FailureLeavesCacheUnchanged ==
    /\ [](\A k \in CacheKeys :
            cache[k].set => /\ cache[k].value.cls = "JIRAResponse"
                            /\ Is2xx(cache[k].value.status_code))
    /\ [][(last' # last /\ last'.op \in CachedOps /\ last'.raised)
          => /\ cache' = cache
             /\ last'.calls # << >>
             /\ last'.v.cls \in {"JIRAError", "JIRAUnauthorized"}]_vars
    /\ [][(last' # last /\ last.op \in CachedOps /\ last.raised
             /\ last'.op = last.op /\ last'.url = last.url)
          => /\ last'.calls # << >>
             /\ (session[last'.client] # NoSession => Gets(last') = 1)]_vars

\* a cached operation whose GET was answered 500: it raised and stored nothing
C18_Witness ==
    /\ last.op \in CachedOps
    /\ last.raised
    /\ Gets(last) = 1
    /\ \E i \in TargetResponses(last) : last.events[i].status_code = 500
    /\ ~cache[KeyOf(last)].set

\* C19: every JIRAError or JIRAUnauthorized raised by get_session or by an
\* operation through make_request is a JIRAUnauthorized exactly when its
\* status code is 401.
C19_UnauthorizedIffStatus401 ==
    (last.raised /\ (last.op = "get_session" \/ CallsMakeRequest(last))
        /\ last.v.cls \in {"JIRAError", "JIRAUnauthorized"})
    => (last.v.cls = "JIRAUnauthorized" <=> last.v.status_code = 401)

\* the target answered 401 and the operation raised JIRAUnauthorized with
\* status 401
C19_Witness ==
    /\ IsMakeRequest(last)
    /\ \E i \in TargetResponses(last) : last.events[i].status_code = 401
    /\ last.raised
    /\ last.v.cls = "JIRAUnauthorized"
    /\ last.v.status_code = 401

====
